---- MODULE Spec2Model ----
(***************************************************************************)
(* Object hierarchy of rnr-core (src/rnr-core/src/instance.rs).            *)
(*                                                                         *)
(* A node is an Rc<RefCell<Instance>>.  The model keeps, per node, the     *)
(* weak parent back-reference, the ordered children vector and the number  *)
(* of registered listeners, and it tracks the RefCell borrow flags that    *)
(* are set while set_parent runs: a borrow() or borrow_mut() of a node     *)
(* that is already mutably borrowed panics (BorrowError/BorrowMutError).   *)
(* A panic ends the call where it stands: what the call has written so far *)
(* stays written, the borrow guards are released by unwinding, and the     *)
(* nodes remain usable by whoever still holds them.                        *)
(***************************************************************************)
EXTENDS Integers, Sequences, FiniteSets, TLC

\* ---------------------------------------------------------------- bounds
NumNodes == 3
MaxListeners == 1
\* how many name / class_name / archivable fields the caller has changed
MaxEdits == 2

Nodes == 1..NumNodes
\* Option::None / Weak::new()
None == 0
\* DataModel.instance, the registry's root node
Root == 1
\* strings used as node names, class names and service names
Names == {"Instance", "DataModel", "X"}
ServiceKeys == {"X"}
\* service names handed to the registry's child-removed handler
HandlerKeys == {"X", "Y"}
\* replication ids
Guids == {"g1", "g2"}
\* how many listener boxes are handed to the peer
MaxPeerListeners == 3
\* Instant values handed to the script: 1..MaxTime
MaxTime == 2
Times == 1..MaxTime

VARIABLES
    parent,      \* Instance.parent    : node -> node or None
    children,    \* Instance.children  : node -> sequence of nodes
    listeners,   \* Instance.listeners : node -> number of registered listeners
    notes,       \* listener callbacks delivered by the last call, in order
    last,        \* the last call: operation, arguments, state before, outcome
    name,        \* Instance.name       : node -> string
    class_name,  \* Instance.class_name : node -> string
    archivable,  \* Instance.archivable : node -> BOOLEAN
    services,    \* DataModel.services  : service name -> node or None
    guid_map,    \* DataModel.guid_map  : replication id -> node or None
    made,        \* the node returned by the last Instance::new() / clone()
    listed,      \* the Vec<ReflectionProperty> returned by the last get_properties()
    peer,        \* ArkPeer: listeners (sequence of listener ids), authorized
    peer_pre,    \* the ArkPeer as it was before the last call on it
    peer_hist,   \* history of the ArkPeer: boxes handed in, listeners dropped,
                 \* whether a disconnect has run (ever / before the last call)
    script,      \* Script: state, resume_time, archivable (of its instance)
    script_pre   \* the Script as it was before the last call on it

tree == <<parent, children, listeners>>
props == <<name, class_name, archivable>>
registry == <<services, guid_map>>
vars == <<parent, children, listeners, notes, last, name, class_name, archivable,
          services, guid_map, made, listed, peer, peer_pre, peer_hist,
          script, script_pre>>
\* what lies outside the tree, the node fields and the registry
apart == <<listed, peer, peer_pre, peer_hist, script, script_pre>>

\* ------------------------------------------------------- Vec<Rc<..>> helpers
\* self.children.iter().any(|c| Rc::ptr_eq(c, child))
contains(seq, x) == \E i \in 1..Len(seq) : seq[i] = x

\* self.children.iter().position(|c| Rc::ptr_eq(c, child)); 0 stands for None
position(seq, x) ==
    IF contains(seq, x)
    THEN CHOOSE i \in 1..Len(seq) : seq[i] = x /\ \A j \in 1..(i - 1) : seq[j] # x
    ELSE 0

\* self.children.remove(pos)
remove(seq, pos) == [i \in 1..(Len(seq) - 1) |-> IF i < pos THEN seq[i] ELSE seq[i + 1]]

\* one callback delivered to listener idx of node to; held is the set of nodes
\* that are mutably borrowed while the callback runs
Note(to, idx, ev, arg, held) ==
    [to |-> to, idx |-> idx, ev |-> ev, arg |-> arg, held |-> held]

\* for listener in &mut self.listeners { listener.<ev>(arg) }
NotifyEach(lis, n, ev, arg, held) == [i \in 1..lis[n] |-> Note(n, i, ev, arg, held)]

\* for listener in &mut self.listeners { listener.<ev1>(arg); listener.<ev2>(arg) }
NotifyEachTwo(lis, n, ev1, ev2, arg, held) ==
    [k \in 1..(2 * lis[n]) |->
        IF k % 2 = 1 THEN Note(n, (k + 1) \div 2, ev1, arg, held)
                     ELSE Note(n, k \div 2, ev2, arg, held)]

\* ------------------------------------------------------------ is_ancestor_of
\* The while-let loop over the parent chain.  cur is `current`; bm is the set
\* of nodes that are mutably borrowed, so that parent.borrow() panics on them.
\* fuel bounds the walk: "loop" stands for a walk that never ends.
RECURSIVE AncestorWalk(_, _, _, _, _)
AncestorWalk(par, a, cur, bm, fuel) ==
    IF cur = None THEN "false"
    ELSE IF cur = a THEN "true"
    ELSE IF fuel = 0 THEN "loop"
    ELSE IF cur \in bm THEN "panic"
    ELSE AncestorWalk(par, a, par[cur], bm, fuel - 1)

\* an `if` where the `while` should be: only the direct parent is looked at
is_ancestor_of_DirectOnly(par, a, b, bm) ==
    IF b \in bm THEN "panic"
    ELSE IF par[b] = a THEN "true" ELSE "false"

is_ancestor_of(par, a, b, bm) ==
    IF b \in bm THEN "panic"
    ELSE AncestorWalk(par, a, par[b], bm, NumNodes)

\* ------------------------------------------------------------- can_add_child
can_add_child_NoParentCheck(par, ch, p, child, bm) ==
    IF child = p THEN "false"
    ELSE IF child \in bm THEN "panic"
    ELSE IF contains(ch[child], p) THEN "false"
    ELSE "true"

can_add_child(par, ch, p, child, bm) ==
    IF child = p THEN "false"
    ELSE IF child \in bm THEN "panic"                 \* child.borrow()
    ELSE IF contains(ch[child], p) THEN "false"
    ELSE IF par[child] # None THEN "false"
    ELSE "true"

\* ------------------------------------------------------------ can_set_parent
can_set_parent_NoCycleGuard(par, ch, instance, np, bm) ==
    IF np = None THEN "true"
    ELSE can_add_child(par, ch, np, instance, bm)

can_set_parent(par, ch, instance, np, bm) ==
    IF np = None THEN "true"
    ELSE LET anc == is_ancestor_of(par, instance, np, bm)
         IN  IF anc = "true" THEN "false"
             ELSE IF anc = "false" THEN can_add_child(par, ch, np, instance, bm)
             ELSE anc

\* ------------------------------------------------- notify_descendants_added
\* The recursion borrows every visited child mutably (child.borrow_mut()).
\* Result: the callbacks delivered and whether a borrow panicked.
RECURSIVE notify_descendants_added(_, _, _, _, _)
RECURSIVE AddedWalk(_, _, _, _, _)
AddedWalk(ch, lis, seq, instance, bm) ==
    IF seq = <<>> THEN [notes |-> <<>>, panic |-> FALSE]
    ELSE LET c == Head(seq)
         IN  IF c = instance THEN AddedWalk(ch, lis, Tail(seq), instance, bm)
             ELSE IF c \in bm THEN [notes |-> <<>>, panic |-> TRUE]
             ELSE LET r == notify_descendants_added(ch, lis, c, instance, bm \cup {c})
                  IN  IF r.panic THEN r
                      ELSE LET rest == AddedWalk(ch, lis, Tail(seq), instance, bm)
                           IN  [notes |-> r.notes \o rest.notes, panic |-> rest.panic]

notify_descendants_added(ch, lis, self, instance, bm) ==
    LET kids == AddedWalk(ch, lis, ch[self], instance, bm)
    IN  IF kids.panic THEN kids
        ELSE [notes |-> kids.notes \o NotifyEach(lis, self, "descendant_added", instance, bm),
              panic |-> FALSE]

\* ----------------------------------------------- notify_descendants_removed
RECURSIVE notify_descendants_removed(_, _, _, _, _)
RECURSIVE RemovedWalk(_, _, _, _, _)
RemovedWalk(ch, lis, seq, instance, bm) ==
    IF seq = <<>> THEN [notes |-> <<>>, panic |-> FALSE]
    ELSE LET c == Head(seq)
         IN  IF c \in bm THEN [notes |-> <<>>, panic |-> TRUE]
             ELSE LET r == notify_descendants_removed(ch, lis, c, instance, bm \cup {c})
                  IN  IF r.panic THEN r
                      ELSE LET rest == RemovedWalk(ch, lis, Tail(seq), instance, bm)
                           IN  [notes |-> r.notes \o rest.notes, panic |-> rest.panic]

notify_descendants_removed(ch, lis, self, instance, bm) ==
    LET kids == RemovedWalk(ch, lis, ch[self], instance, bm)
    IN  IF kids.panic THEN kids
        ELSE [notes |-> kids.notes \o NotifyEach(lis, self, "descendant_removed", instance, bm),
              panic |-> FALSE]

\* -------------------------------------------------------- add_child_internal
\* self is the new parent (already mutably borrowed, so self \in bm).
add_child_internal(par, ch, lis, self, child, bm) ==
    LET ok == can_add_child(par, ch, self, child, bm)
    IN  IF ok = "panic" THEN [ch |-> ch, notes |-> <<>>, panic |-> TRUE]
        ELSE IF ok # "true" THEN [ch |-> ch, notes |-> <<>>, panic |-> FALSE]
        ELSE LET ch2  == [ch EXCEPT ![self] = Append(@, child)]
                 own  == NotifyEachTwo(lis, self, "child_added", "descendant_added", child, bm)
                 desc == notify_descendants_added(ch2, lis, self, child, bm)
             IN  [ch |-> ch2, notes |-> own \o desc.notes, panic |-> desc.panic]

\* ----------------------------------------------------- remove_child_internal
\* self is the old parent (already mutably borrowed, so self \in bm).
remove_child_internal(ch, lis, self, child, bm) ==
    LET pos == position(ch[self], child)
    IN  IF pos = 0 THEN [ch |-> ch, notes |-> <<>>, panic |-> FALSE]
        ELSE LET ch2  == [ch EXCEPT ![self] = remove(@, pos)]
                 own  == NotifyEachTwo(lis, self, "child_removed", "descendant_removed", child, bm)
                 desc == notify_descendants_removed(ch2, lis, self, child, bm)
             IN  [ch |-> ch2, notes |-> own \o desc.notes, panic |-> desc.panic]

\* ---------------------------------------------------------------- set_parent
\* The whole call, as a function of the state before it.  bm0 is the set of
\* nodes mutably borrowed by the caller (empty for a call from outside).
Outcome(par, ch, nt, feasible, outcome) ==
    [parent |-> par, children |-> ch, notes |-> nt, feasible |-> feasible, outcome |-> outcome]

set_parent_NotifyAlways(par, ch, lis, instance, np, bm0) ==
    LET can_set == can_set_parent(par, ch, instance, np, bm0)
        bm1     == bm0 \cup {instance}
        old     == par[instance]
        det     == IF old = None THEN [ch |-> ch, notes |-> <<>>, panic |-> FALSE]
                   ELSE IF old \in bm1 THEN [ch |-> ch, notes |-> <<>>, panic |-> TRUE]
                   ELSE remove_child_internal(ch, lis, old, instance, bm1 \cup {old})
        par2    == [par EXCEPT ![instance] = np]
        att     == IF np = None THEN [ch |-> det.ch, notes |-> <<>>, panic |-> FALSE]
                   ELSE IF np \in bm1 THEN [ch |-> det.ch, notes |-> <<>>, panic |-> TRUE]
                   ELSE add_child_internal(par2, det.ch, lis, np, instance, bm1 \cup {np})
        own     == NotifyEach(lis, instance, "parent_changed", np, bm1)
    IN  IF can_set \in {"panic", "loop"} THEN Outcome(par, ch, <<>>, can_set, can_set)
        ELSE IF can_set = "false" THEN Outcome(par, ch, own, can_set, "ok")
        ELSE IF instance \in bm0 THEN Outcome(par, ch, <<>>, can_set, "panic")
        ELSE IF det.panic THEN Outcome(par, det.ch, det.notes, can_set, "panic")
        ELSE IF att.panic THEN Outcome(par2, att.ch, det.notes \o att.notes, can_set, "panic")
        ELSE Outcome(par2, att.ch, det.notes \o att.notes \o own, can_set, "ok")

set_parent(par, ch, lis, instance, np, bm0) ==
    LET can_set == can_set_parent(par, ch, instance, np, bm0)
        \* let mut instance_mut = instance.borrow_mut();
        bm1     == bm0 \cup {instance}
        \* if let Some(old_parent) = instance_mut.parent.upgrade()
        old     == par[instance]
        det     == IF old = None THEN [ch |-> ch, notes |-> <<>>, panic |-> FALSE]
                   ELSE IF old \in bm1 THEN [ch |-> ch, notes |-> <<>>, panic |-> TRUE]
                   ELSE remove_child_internal(ch, lis, old, instance, bm1 \cup {old})
        \* instance_mut.parent = ...
        par2    == [par EXCEPT ![instance] = np]
        \* if let Some(parent) = &new_parent { parent.borrow_mut().add_child_internal(..) }
        att     == IF np = None THEN [ch |-> det.ch, notes |-> <<>>, panic |-> FALSE]
                   ELSE IF np \in bm1 THEN [ch |-> det.ch, notes |-> <<>>, panic |-> TRUE]
                   ELSE add_child_internal(par2, det.ch, lis, np, instance, bm1 \cup {np})
        \* for listener in &mut instance_mut.listeners { listener.on_parent_changed(..) }
        own     == NotifyEach(lis, instance, "parent_changed", np, bm1)
    IN  IF can_set \in {"panic", "loop"} THEN Outcome(par, ch, <<>>, can_set, can_set)
        ELSE IF can_set = "false" THEN Outcome(par, ch, <<>>, can_set, "ok")
        ELSE IF instance \in bm0 THEN Outcome(par, ch, <<>>, can_set, "panic")
        ELSE IF det.panic THEN Outcome(par, det.ch, det.notes, can_set, "panic")
        ELSE IF att.panic THEN Outcome(par2, att.ch, det.notes \o att.notes, can_set, "panic")
        ELSE Outcome(par2, att.ch, det.notes \o att.notes \o own, can_set, "ok")

\* ---------------------------------------------------------------- DataModel
\* DataModel::new() builds the root instance and the two empty maps; it never
\* calls add_listener, so the registry's InstanceListener handlers are not
\* attached to the root.
registry_listens == FALSE

\* a handler that unregisters by identity
on_child_removed_ByIdentity(svc, nm, child) ==
    [k \in DOMAIN svc |-> IF svc[k] = child THEN None ELSE svc[k]]

\* impl InstanceListener for DataModel: on_child_removed
on_child_removed(svc, nm, child) ==
    [k \in DOMAIN svc |-> IF k = nm[child] THEN None ELSE svc[k]]

\* what a set_parent call that took instance out of the root's children does
\* to the service map
RegistryHears(svc, nm, pre_ch, post_ch, instance) ==
    IF /\ registry_listens
       /\ contains(pre_ch[Root], instance)
       /\ ~contains(post_ch[Root], instance)
    THEN on_child_removed(svc, nm, instance)
    ELSE svc

\* DataModel::get_service
get_service(svc, k) == IF k \in DOMAIN svc THEN svc[k] ELSE None

\* DataModel::register_service: set_parent first; a panic there unwinds past
\* the insert
register_service(par, ch, lis, svc, nm, k, service) ==
    LET r    == set_parent(par, ch, lis, service, Root, {})
        svc1 == RegistryHears(svc, nm, ch, r.children, service)
    IN  [tree |-> r,
         services |-> IF r.outcome = "ok" THEN [svc1 EXCEPT ![k] = service] ELSE svc1]

\* DataModel::get_instance_by_guid
get_instance_by_guid(gm, g) == IF g \in DOMAIN gm THEN gm[g] ELSE None

\* an insert that keeps the entry already there
register_instance_guid_KeepFirst(gm, n, g) ==
    IF gm[g] = None THEN [gm EXCEPT ![g] = n] ELSE gm

\* DataModel::register_instance_guid: HashMap::insert
register_instance_guid(gm, n, g) == [gm EXCEPT ![g] = n]

\* DataModel::remove_instance_guid: HashMap::remove
remove_instance_guid(gm, g) == [gm EXCEPT ![g] = None]

\* DataModel::get_guid_for_instance: the first match in the HashMap's
\* iteration order, which is unspecified; the set of values it can return
\* ("none" stands for Option::None)
get_guid_for_instance(gm, n) ==
    LET hits == {g \in DOMAIN gm : gm[g] = n}
    IN  IF hits = {} THEN {"none"} ELSE hits

\* an archivable flag that is not copied
clone_DefaultArchivable(nm, cls, arch, n) ==
    [parent |-> None, children |-> <<>>, name |-> nm[n], archivable |-> TRUE,
     class_name |-> cls[n], listeners |-> 0]

\* Instance::clone(&self)
clone(nm, cls, arch, n) ==
    [parent |-> None, children |-> <<>>, name |-> nm[n], archivable |-> arch[n],
     class_name |-> cls[n], listeners |-> 0]

\* self.children.iter().find(|child| ..).cloned(), hits being the nodes the
\* closure accepts; None when nothing hits
FirstMatch(seq, hits) ==
    IF \E i \in 1..Len(seq) : seq[i] \in hits
    THEN seq[CHOOSE i \in 1..Len(seq) : seq[i] \in hits /\ \A j \in 1..(i - 1) : seq[j] \notin hits]
    ELSE None

\* Instance::is_a
is_a(cls, n, s) == cls[n] = s

\* Instance::find_first_child, called with no node mutably borrowed
find_first_child(ch, nm, self, s) ==
    FirstMatch(ch[self], {c \in DOMAIN nm : nm[c] = s})

\* Instance::find_first_child_of_type, called with no node mutably borrowed
find_first_child_of_type(ch, cls, self, s) ==
    FirstMatch(ch[self], {c \in DOMAIN cls : is_a(cls, c, s)})

\* ReflectionProperty::new(..).with_getter(..).with_setter(..): the fields the
\* builder fills; getter and setter say whether the Option holds a closure
ReflectionProperty(nm, access, operation, property_type, getter, setter) ==
    [name |-> nm, access |-> access, operation |-> operation,
     property_type |-> property_type, getter |-> getter, setter |-> setter]

\* a Parent descriptor built with a setter
get_properties_ParentSetter ==
    << ReflectionProperty("Name", "None", "ReadWrite", "String", TRUE, TRUE),
       ReflectionProperty("Parent", "None", "Read", "Instance", TRUE, TRUE),
       ReflectionProperty("Archivable", "None", "ReadWrite", "Bool", TRUE, TRUE) >>

\* Instance::get_properties(&self); add_properties pushes nothing
get_properties ==
    << ReflectionProperty("Name", "None", "ReadWrite", "String", TRUE, TRUE),
       ReflectionProperty("Parent", "None", "Read", "Instance", TRUE, FALSE),
       ReflectionProperty("Archivable", "None", "ReadWrite", "Bool", TRUE, TRUE) >>

\* ------------------------------------------------------------------ ArkPeer
\* ArkPeer::with_remote
ArkPeer_with_remote == [listeners |-> <<>>, authorized |-> FALSE]

\* for listener in &mut listeners { listener.<ev>(&temp_peer) }: the list was
\* drained out of self, so no callback runs with it in place
PeerNotify(ls, ev) == [i \in 1..Len(ls) |-> Note(ls[i], i, ev, None, {})]

\* ArkPeer::add_listener
peer_add_listener(p, l) == [p EXCEPT !.listeners = Append(@, l)]

\* ArkPeer::authorize
authorize(p) ==
    [peer  |-> [p EXCEPT !.authorized = TRUE],
     notes |-> PeerNotify(p.listeners, "on_connection_accepted")]

\* a disconnect that puts the listeners back
disconnect_Restores(p) ==
    [peer  |-> p,
     notes |-> PeerNotify(p.listeners, "on_disconnected")]

\* ArkPeer::disconnect; the result of send_packet is discarded
disconnect(p) ==
    [peer  |-> [p EXCEPT !.listeners = <<>>],
     notes |-> PeerNotify(p.listeners, "on_disconnected")]

\* ------------------------------------------------------------------- Script
\* Script::new: state Stopped, no resume time; its instance is archivable
Script_new == [state |-> "Stopped", resume_time |-> None, archivable |-> TRUE]

\* Script::pause
pause(sc) == [sc EXCEPT !.state = "Paused"]

\* Script::resume: the script afterwards and the Result
resume(sc) ==
    IF sc.state = "Paused"
    THEN [script |-> [sc EXCEPT !.state = "Running"], result |-> "Ok"]
    ELSE [script |-> sc, result |-> "RuntimeError"]

\* a stop that leaves the resume time set
stop_KeepsResumeTime(sc) == [sc EXCEPT !.state = "Stopped"]

\* Script::stop
stop(sc) == [sc EXCEPT !.state = "Stopped", !.resume_time = None]

\* Script::should_resume
should_resume(sc, t) == IF sc.resume_time # None THEN t >= sc.resume_time ELSE FALSE

\* Script::set_resume_time
set_resume_time(sc, t) == [sc EXCEPT !.resume_time = t]

\* Script::set_source
set_source(sc) == [sc EXCEPT !.state = "Stopped"]

\* Script::execute: Running when the context ran the script (ran), otherwise
\* an Err and no change
execute(sc, ran) ==
    IF ran THEN [script |-> [sc EXCEPT !.state = "Running"], result |-> "Ok"]
    ELSE [script |-> sc, result |-> "RuntimeError"]

\* Script::set_disabled, called while the script's instance is not borrowed
set_disabled(sc, disabled) ==
    LET sc1 == [sc EXCEPT !.archivable = ~disabled]
    IN  IF disabled THEN stop(sc1) ELSE sc1

\* Script::update
update(sc, t) ==
    IF sc.state = "Paused" /\ should_resume(sc, t) THEN resume(sc).script ELSE sc

\* ------------------------------------------------------------------- state
\* Every node is the result of Instance::new(): detached, no children, no
\* listeners.  All nodes stay referenced by the caller, so upgrade() of a
\* parent back-reference always succeeds.
CallK(op, node, np, key, result, outcome) ==
    [op |-> op, node |-> node, np |-> np, key |-> key, result |-> result,
     outcome |-> outcome, pre_parent |-> parent, pre_children |-> children,
     pre_services |-> services, pre_guid_map |-> guid_map]

Call(op, node, np, result, outcome) == CallK(op, node, np, "", result, outcome)

\* a constructor that leaves the flag off
Instance_new_NotArchivable ==
    [parent |-> None, children |-> <<>>, name |-> "Instance", archivable |-> FALSE,
     class_name |-> "Instance", listeners |-> 0]

\* Instance::new()
Instance_new ==
    [parent |-> None, children |-> <<>>, name |-> "Instance", archivable |-> TRUE,
     class_name |-> "Instance", listeners |-> 0]

Init ==
    /\ parent = [n \in Nodes |-> None]
    /\ children = [n \in Nodes |-> <<>>]
    /\ listeners = [n \in Nodes |-> 0]
    /\ notes = <<>>
    \* DataModel::new() renames its root instance and registers no listener
    /\ name = [n \in Nodes |-> IF n = Root THEN "DataModel" ELSE Instance_new.name]
    /\ class_name = [n \in Nodes |-> IF n = Root THEN "DataModel" ELSE Instance_new.class_name]
    /\ archivable = [n \in Nodes |-> Instance_new.archivable]
    /\ services = [k \in ServiceKeys \cup HandlerKeys |-> None]
    /\ guid_map = [g \in Guids |-> None]
    /\ made = Instance_new
    /\ listed = <<>>
    /\ peer = ArkPeer_with_remote
    /\ peer_pre = ArkPeer_with_remote
    /\ peer_hist = [boxes |-> 0, dropped |-> {}, ever |-> FALSE, before |-> FALSE]
    /\ script = Script_new
    /\ script_pre = Script_new
    /\ last = Call("new", None, None, "none", "ok")

\* Instance::set_parent(&instance, new_parent), called from outside the tree
SetParent(instance, np) ==
    LET r == set_parent(parent, children, listeners, instance, np, {})
    IN  /\ parent' = r.parent
        /\ children' = r.children
        /\ notes' = r.notes
        /\ last' = Call("set_parent", instance, np, r.feasible, r.outcome)
        /\ services' = RegistryHears(services, name, children, r.children, instance)
        /\ UNCHANGED <<listeners, props, guid_map, made, apart>>

\* node.borrow_mut().add_listener(listener)
AddListener(n) ==
    /\ listeners[n] < MaxListeners
    /\ listeners' = [listeners EXCEPT ![n] = @ + 1]
    /\ notes' = <<>>
    /\ last' = Call("add_listener", n, None, "none", "ok")
    /\ UNCHANGED <<parent, children, props, registry, made, apart>>

\* Instance::can_add_child(&p, &child), called from outside the tree
CanAddChild(p, child) ==
    /\ notes' = <<>>
    /\ last' = Call("can_add_child", child, p, can_add_child(parent, children, p, child, {}), "ok")
    /\ UNCHANGED <<tree, props, registry, made, apart>>

\* datamodel.borrow_mut().register_service(k, service)
RegisterService(k, service) ==
    LET rs == register_service(parent, children, listeners, services, name, k, service)
    IN  /\ parent' = rs.tree.parent
        /\ children' = rs.tree.children
        /\ notes' = rs.tree.notes
        /\ services' = rs.services
        /\ last' = CallK("register_service", service, Root, k, rs.tree.feasible, rs.tree.outcome)
        /\ UNCHANGED <<listeners, props, guid_map, made, apart>>

\* the values the fields have after construction
InitName(n) == IF n = Root THEN "DataModel" ELSE Instance_new.name

\* number of name / class_name / archivable fields that differ from them
Edits(nm, cls, arch) ==
    Cardinality({n \in Nodes : nm[n] # InitName(n)})
    + Cardinality({n \in Nodes : cls[n] # InitName(n)})
    + Cardinality({n \in Nodes : arch[n] # Instance_new.archivable})

\* node.borrow_mut().set_name(s)
SetName(n, s) ==
    /\ Edits([name EXCEPT ![n] = s], class_name, archivable) <= MaxEdits
    /\ name' = [name EXCEPT ![n] = s]
    /\ notes' = <<>>
    /\ last' = CallK("set_name", n, None, s, "none", "ok")
    /\ UNCHANGED <<tree, class_name, archivable, registry, made, apart>>

\* node.borrow_mut().set_class_name(s)
SetClassName(n, s) ==
    /\ Edits(name, [class_name EXCEPT ![n] = s], archivable) <= MaxEdits
    /\ class_name' = [class_name EXCEPT ![n] = s]
    /\ notes' = <<>>
    /\ last' = CallK("set_class_name", n, None, s, "none", "ok")
    /\ UNCHANGED <<tree, name, archivable, registry, made, apart>>

\* node.borrow_mut().set_archivable(b)
SetArchivable(n, b) ==
    /\ Edits(name, class_name, [archivable EXCEPT ![n] = b]) <= MaxEdits
    /\ archivable' = [archivable EXCEPT ![n] = b]
    /\ notes' = <<>>
    /\ last' = Call("set_archivable", n, None, "none", "ok")
    /\ UNCHANGED <<tree, name, class_name, registry, made, apart>>

\* Instance::new()
New ==
    /\ made' = Instance_new
    /\ notes' = <<>>
    /\ last' = Call("new", None, None, "none", "ok")
    /\ UNCHANGED <<tree, props, registry, apart>>

\* n.borrow().clone()
Clone(n) ==
    /\ made' = clone(name, class_name, archivable, n)
    /\ notes' = <<>>
    /\ last' = Call("clone", n, None, "none", "ok")
    /\ UNCHANGED <<tree, props, registry, apart>>

\* datamodel.borrow_mut().register_instance_guid(n, g)
RegisterInstanceGuid(n, g) ==
    /\ guid_map' = register_instance_guid(guid_map, n, g)
    /\ notes' = <<>>
    /\ last' = CallK("register_instance_guid", n, None, g, "none", "ok")
    /\ UNCHANGED <<tree, props, services, made, apart>>

\* datamodel.borrow_mut().remove_instance_guid(g)
RemoveInstanceGuid(g) ==
    /\ guid_map' = remove_instance_guid(guid_map, g)
    /\ notes' = <<>>
    /\ last' = CallK("remove_instance_guid", None, None, g, "none", "ok")
    /\ UNCHANGED <<tree, props, services, made, apart>>

\* datamodel.borrow().get_guid_for_instance(&n)
GetGuidForInstance(n) ==
    \E res \in get_guid_for_instance(guid_map, n) :
        /\ notes' = <<>>
        /\ last' = CallK("get_guid_for_instance", n, None, "", res, "ok")
        /\ UNCHANGED <<tree, props, registry, made, apart>>

\* datamodel.borrow().get_instance_by_guid(g)
GetInstanceByGuid(g) ==
    /\ notes' = <<>>
    /\ last' = CallK("get_instance_by_guid", get_instance_by_guid(guid_map, g), None, g, "none", "ok")
    /\ UNCHANGED <<tree, props, registry, made, apart>>

\* n.borrow().find_first_child(s); the node handed back is kept in last.np
FindFirstChild(n, s) ==
    /\ notes' = <<>>
    /\ last' = CallK("find_first_child", n, find_first_child(children, name, n, s), s, "none", "ok")
    /\ UNCHANGED <<tree, props, registry, made, apart>>

\* n.borrow().find_first_child_of_type(s); the node handed back is kept in last.np
FindFirstChildOfType(n, s) ==
    /\ notes' = <<>>
    /\ last' = CallK("find_first_child_of_type", n,
                     find_first_child_of_type(children, class_name, n, s), s, "none", "ok")
    /\ UNCHANGED <<tree, props, registry, made, apart>>

\* datamodel.borrow_mut().on_child_removed(child): the handler called as the
\* trait method it is
OnChildRemoved(child) ==
    /\ services' = on_child_removed(services, name, child)
    /\ notes' = <<>>
    /\ last' = Call("on_child_removed", child, None, "none", "ok")
    /\ UNCHANGED <<tree, props, guid_map, made, apart>>

\* n.borrow().get_properties()
GetProperties(n) ==
    /\ listed' = get_properties
    /\ notes' = <<>>
    /\ last' = Call("get_properties", n, None, "none", "ok")
    /\ UNCHANGED <<tree, props, registry, made, peer, peer_pre, peer_hist, script, script_pre>>

\* what a call on the peer leaves alone
beside_peer == <<tree, props, registry, made, listed, script, script_pre>>
\* what a call on the script leaves alone
beside_script == <<tree, props, registry, made, listed, peer, peer_pre, peer_hist>>

\* the history kept about the peer after a call on it
PeerHist(boxes, dropped, disconnected) ==
    [boxes |-> boxes, dropped |-> dropped,
     ever |-> peer_hist.ever \/ disconnected, before |-> peer_hist.ever]

\* peer.add_listener(Box::new(l)): every box is a listener of its own
PeerAddListener ==
    /\ peer_hist.boxes < MaxPeerListeners
    /\ peer' = peer_add_listener(peer, peer_hist.boxes + 1)
    /\ peer_pre' = peer
    /\ peer_hist' = PeerHist(peer_hist.boxes + 1, peer_hist.dropped, FALSE)
    /\ notes' = <<>>
    /\ last' = Call("peer_add_listener", None, None, "none", "ok")
    /\ UNCHANGED beside_peer

\* peer.authorize()
Authorize ==
    LET r == authorize(peer)
    IN  /\ peer' = r.peer
        /\ peer_pre' = peer
        /\ peer_hist' = PeerHist(peer_hist.boxes, peer_hist.dropped, FALSE)
        /\ notes' = r.notes
        /\ last' = Call("authorize", None, None, "none", "ok")
        /\ UNCHANGED beside_peer

\* peer.disconnect(reason, silent); the drained listeners are dropped on return
Disconnect(silent) ==
    LET r == disconnect(peer)
    IN  /\ peer' = r.peer
        /\ peer_pre' = peer
        /\ peer_hist' = PeerHist(peer_hist.boxes,
                                 peer_hist.dropped \cup {l \in 1..peer_hist.boxes :
                                     contains(peer.listeners, l) /\ ~contains(r.peer.listeners, l)},
                                 TRUE)
        /\ notes' = r.notes
        /\ last' = Call("disconnect", None, None, IF silent THEN "silent" ELSE "loud", "ok")
        /\ UNCHANGED beside_peer

\* a call on the script: sc is the script afterwards, t the Instant passed in
\* (None when the call takes none), result the Result it returned
ScriptCall(op, sc, t, result) ==
    /\ script' = sc
    /\ script_pre' = script
    /\ notes' = <<>>
    /\ last' = Call(op, None, t, result, "ok")
    /\ UNCHANGED beside_script

Pause == ScriptCall("pause", pause(script), None, "none")
Resume == ScriptCall("resume", resume(script).script, None, resume(script).result)
Stop == ScriptCall("stop", stop(script), None, "none")
SetResumeTime(t) == ScriptCall("set_resume_time", set_resume_time(script, t), t, "none")
SetSource == ScriptCall("set_source", set_source(script), None, "none")
Execute(ran) == ScriptCall("execute", execute(script, ran).script, None, execute(script, ran).result)
SetDisabled(disabled) ==
    ScriptCall("set_disabled", set_disabled(script, disabled), None,
               IF disabled THEN "true" ELSE "false")
Update(t) == ScriptCall("update", update(script, t), t, "none")

Next ==
    \/ \E instance \in Nodes, np \in Nodes \cup {None} : SetParent(instance, np)
    \/ \E n \in Nodes : AddListener(n)
    \/ \E p \in Nodes, child \in Nodes : CanAddChild(p, child)

Spec == Init /\ [][Next]_vars

\* the registry in use: services are named, registered and reparented
NextRegistry ==
    \/ \E k \in ServiceKeys, service \in Nodes : RegisterService(k, service)
    \/ \E instance \in Nodes, np \in Nodes \cup {None} : SetParent(instance, np)
    \/ \E n \in Nodes, s \in ServiceKeys : SetName(n, s)

RegistrySpec == Init /\ [][NextRegistry]_vars

\* the registry's child-removed handler at work on registered services
NextHandler ==
    \/ \E k \in HandlerKeys, service \in Nodes \ {Root} : RegisterService(k, service)
    \/ \E n \in Nodes \ {Root}, s \in HandlerKeys : SetName(n, s)
    \/ \E child \in Nodes : OnChildRemoved(child)

HandlerSpec == Init /\ [][NextHandler]_vars

\* the replication-id map in use
NextGuid ==
    \/ \E n \in Nodes, g \in Guids : RegisterInstanceGuid(n, g)
    \/ \E g \in Guids : RemoveInstanceGuid(g)
    \/ \E n \in Nodes : GetGuidForInstance(n)
    \/ \E g \in Guids : GetInstanceByGuid(g)

GuidSpec == Init /\ [][NextGuid]_vars

\* the node that is being built: renamed, given listeners and hung under the
\* root, while any node may be cloned and new nodes are created
Subject == NumNodes

NextNode ==
    \/ New
    \/ \E n \in Nodes : Clone(n)
    \/ \E s \in Names : SetName(Subject, s)
    \/ \E s \in Names : SetClassName(Subject, s)
    \/ \E b \in BOOLEAN : SetArchivable(Subject, b)
    \/ AddListener(Subject)
    \/ \E np \in {None, Root} : SetParent(Subject, np)

NodeSpec == Init /\ [][NextNode]_vars

\* children looked up by name and by type tag after attaches and renames
NextLookup ==
    \/ \E n \in Nodes, s \in Names : FindFirstChild(n, s)
    \/ \E n \in Nodes, s \in Names : FindFirstChildOfType(n, s)
    \/ \E n \in Nodes, s \in ServiceKeys : SetName(n, s)
    \/ \E n \in Nodes, s \in ServiceKeys : SetClassName(n, s)
    \/ \E instance \in Nodes, np \in {None, Root} : SetParent(instance, np)

LookupSpec == Init /\ [][NextLookup]_vars

\* descriptors listed for a node that is renamed, flagged and hung under the root
NextReflection ==
    \/ \E n \in Nodes : GetProperties(n)
    \/ \E s \in Names : SetName(Subject, s)
    \/ \E b \in BOOLEAN : SetArchivable(Subject, b)
    \/ \E np \in {None, Root} : SetParent(Subject, np)
    \/ AddListener(Subject)

ReflectionSpec == Init /\ [][NextReflection]_vars

\* one network peer: listeners come, the peer is authorized and disconnected
NextPeer ==
    \/ PeerAddListener
    \/ Authorize
    \/ \E silent \in BOOLEAN : Disconnect(silent)

PeerSpec == Init /\ [][NextPeer]_vars

\* one script driven through its state machine
NextScript ==
    \/ Pause
    \/ Resume
    \/ Stop
    \/ \E t \in Times : SetResumeTime(t)
    \/ SetSource
    \/ \E ran \in BOOLEAN : Execute(ran)
    \/ \E disabled \in BOOLEAN : SetDisabled(disabled)
    \/ \E t \in Times : Update(t)

ScriptSpec == Init /\ [][NextScript]_vars

\* ------------------------------------------------------- claim vocabulary
RECURSIVE Chain(_, _, _)
\* the nodes met on the parent chain of n (its strict ancestors)
Chain(par, n, k) ==
    IF k = 0 \/ par[n] = None THEN {}
    ELSE {par[n]} \cup Chain(par, par[n], k - 1)

\* b is a descendant of a, at any depth
IsDescendant(par, a, b) == a \in Chain(par, b, NumNodes)

\* how many times x occurs in seq
Count(seq, x) == Cardinality({i \in 1..Len(seq) : seq[i] = x})

Members(seq) == {seq[i] : i \in 1..Len(seq)}

\* seq with every occurrence of x left out, the rest in order
RECURSIVE Without(_, _)
Without(seq, x) ==
    IF seq = <<>> THEN <<>>
    ELSE IF Head(seq) = x THEN Without(Tail(seq), x)
    ELSE <<Head(seq)>> \o Without(Tail(seq), x)

LastSetParent == last.op = "set_parent"
LastAttach == LastSetParent /\ last.np # None

\* ------------------------------------------------------------------ C1
\* C1: for a detached node c and a node p with p # c and p not a descendant
\* of c, after set_parent(c, Some(p)) p's children contain c exactly once and
\* c.parent() is p.
C1_AttachDetached ==
    (/\ LastAttach
     /\ last.pre_parent[last.node] = None
     /\ last.np # last.node
     /\ ~IsDescendant(last.pre_parent, last.node, last.np))
    => /\ Count(children[last.np], last.node) = 1
       /\ parent[last.node] = last.np

\* ------------------------------------------------------------------ C2
\* C2: every call set_parent(node, new_parent) returns normally; no panic or
\* runtime borrow conflict is reachable.
C2_ReturnsNormally == LastSetParent => last.outcome = "ok"

\* ------------------------------------------------------------------ C3
\* C3: if b is a descendant of a (at any depth), set_parent(a, Some(b)) is a
\* no-op: a.parent() is unchanged and no children list changes.
C3_CycleIsNoOp ==
    (LastAttach /\ IsDescendant(last.pre_parent, last.node, last.np))
    => /\ parent = last.pre_parent
       /\ children = last.pre_children
       /\ last.outcome = "ok"

\* root R, A below R, B below A, then set_parent(R, Some(B))
C3_Witness ==
    /\ LastAttach
    /\ IsDescendant(last.pre_parent, last.node, last.np)
    /\ last.pre_parent[last.np] \notin {None, last.node}
    /\ parent[last.node] = None

\* ------------------------------------------------------------------ C4
\* C4: for a node c attached to parent p, set_parent(c, None) removes c from
\* p's children exactly once (p's child count drops by one, the other
\* children keep their order) and afterwards c.parent() is none.
C4_DetachRemovesOnce ==
    (LastSetParent /\ last.np = None /\ last.pre_parent[last.node] # None)
    => LET p == last.pre_parent[last.node]
       IN  /\ Len(children[p]) = Len(last.pre_children[p]) - 1
           /\ children[p] = Without(last.pre_children[p], last.node)
           /\ parent[last.node] = None

\* ------------------------------------------------------------------ C5
\* C5: in every reachable state a parent's children set equals exactly the
\* set of nodes whose parent back-reference is that parent.
C5_ChildrenMatchBackRefs ==
    \A p \in Nodes : Members(children[p]) = {n \in Nodes : parent[n] = p}

\* ------------------------------------------------------------------ C7
\* C7: in every reachable state the parent graph is acyclic (no node is its
\* own ancestor), so the parent-chain walk of is_ancestor_of terminates.
C7_Acyclic ==
    /\ \A n \in Nodes : ~IsDescendant(parent, n, n)
    /\ \A a \in Nodes, b \in Nodes : is_ancestor_of(parent, a, b, {}) \in {"true", "false"}

\* a two-level parent chain exists and the call that would have closed it
\* into a cycle has just been made
C7_Witness ==
    /\ LastAttach
    /\ parent[last.np] # None
    /\ parent[parent[last.np]] = last.node

\* ------------------------------------------------------------------ C8
\* C8: when set_parent(node, Some(new_parent)) is infeasible (new_parent ==
\* node, new_parent a descendant of node, or can_add_child(new_parent, node)
\* false) nothing changes: parents and children are as before, no listener
\* is notified and no error is reported.
C8_Infeasible ==
    /\ LastAttach
    /\ \/ last.np = last.node
       \/ IsDescendant(last.pre_parent, last.node, last.np)
       \/ can_add_child(last.pre_parent, last.pre_children, last.np, last.node, {}) = "false"

C8_InfeasibleChangesNothing ==
    C8_Infeasible
    => /\ parent = last.pre_parent
       /\ children = last.pre_children
       /\ notes = <<>>
       /\ last.outcome = "ok"

\* an infeasible call on a node that has a listener, towards a node that has one
C8_Witness ==
    /\ C8_Infeasible
    /\ last.np # last.node
    /\ listeners[last.node] > 0
    /\ listeners[last.np] > 0

\* ------------------------------------------------------------------ C9
\* C9: for a node c attached to p1 and a node p2 with p2 # p1, p2 # c and p2
\* not a descendant of c, set_parent(c, Some(p2)) moves c: afterwards c is
\* absent from p1's children, present exactly once in p2's children, and
\* c.parent() is p2.
C9_MovesAttachedNode ==
    (/\ LastAttach
     /\ last.pre_parent[last.node] \notin {None, last.np}
     /\ last.np # last.node
     /\ ~IsDescendant(last.pre_parent, last.node, last.np))
    => /\ ~contains(children[last.pre_parent[last.node]], last.node)
       /\ Count(children[last.np], last.node) = 1
       /\ parent[last.node] = last.np

\* ------------------------------------------------------------------ C10
\* C10 (as claimed): can_add_child(parent, child) returns false exactly when
\* child == parent, or parent is a descendant of child at any depth, or child
\* already has a parent; otherwise true.
C10_FalseOnAnyDescendant ==
    last.op = "can_add_child"
    => (last.result = "false"
        <=> \/ last.node = last.np
            \/ IsDescendant(parent, last.node, last.np)
            \/ parent[last.node] # None)

\* C10 (amended): can_add_child(parent, child) returns false exactly when
\* child == parent, or parent is an element of child's own children list, or
\* child already has a parent; otherwise it returns true.
C10_FalseOnListedChild ==
    last.op = "can_add_child"
    => /\ last.result \in {"true", "false"}
       /\ last.result = "false"
          <=> \/ last.node = last.np
              \/ last.np \in Members(children[last.node])
              \/ parent[last.node] # None

\* the parent argument hangs two levels below the child argument
C10_Witness ==
    /\ last.op = "can_add_child"
    /\ parent[last.np] \notin {None, last.node}
    /\ IsDescendant(parent, last.node, last.np)
    /\ last.result = "true"

\* ------------------------------------------------------------------ C11
\* how often listener idx of node to got callback ev(arg) during the last call
Delivered(to, idx, ev, arg) ==
    Cardinality({k \in 1..Len(notes) :
        /\ notes[k].to = to /\ notes[k].idx = idx
        /\ notes[k].ev = ev /\ notes[k].arg = arg})

\* the last call was a set_parent(c, Some(p)) that passed the feasibility check
LastFeasibleAttach == LastAttach /\ last.result = "true"

\* C11: on a direct attach of child c to parent p by set_parent, each listener
\* registered on p receives child-added(c) exactly once and
\* descendant-added(c) exactly once.
C11_ParentNotifiedOnce ==
    LastFeasibleAttach
    => \A i \in 1..listeners[last.np] :
          /\ Delivered(last.np, i, "child_added", last.node) = 1
          /\ Delivered(last.np, i, "descendant_added", last.node) = 1

\* ------------------------------------------------------------------ C12
\* C12: when child c is attached to parent p by set_parent, every listener on
\* every strict ancestor of p receives descendant-added(c).
C12_AncestorsNotified ==
    LastFeasibleAttach
    => \A a \in Chain(last.pre_parent, last.np, NumNodes) :
          \A i \in 1..listeners[a] :
              Delivered(a, i, "descendant_added", last.node) >= 1

\* ------------------------------------------------------------------ C13
Rank(ev) ==
    IF ev \in {"child_removed", "descendant_removed"} THEN 1
    ELSE IF ev \in {"child_added", "descendant_added"} THEN 2
    ELSE 3

\* C13: within one feasible set_parent call the steps happen in this order:
\* removal from the old parent and its removal notifications, rebinding of the
\* parent back-reference, insertion into the new parent and its addition
\* notifications, and last the parent-changed notification to the moved
\* node's own listeners; no addition notification precedes a removal one.
C13_StepsInOrder ==
    (LastSetParent /\ last.result = "true")
    => /\ \A i \in 1..Len(notes), j \in 1..Len(notes) :
              i < j => Rank(notes[i].ev) <= Rank(notes[j].ev)
       /\ parent[last.node] = last.np
       /\ last.np # None => contains(children[last.np], last.node)
       /\ Len(notes) >= listeners[last.node]
       /\ \A i \in 1..listeners[last.node] :
              LET k == Len(notes) - listeners[last.node] + i
              IN  /\ notes[k].to = last.node /\ notes[k].idx = i
                  /\ notes[k].ev = "parent_changed" /\ notes[k].arg = last.np

\* ------------------------------------------------------------------ C14
\* C14: when set_parent invokes listener callbacks, neither the notifying node
\* nor the moved node is held borrowed, so a callback that re-enters the tree
\* hits no borrow conflict.
C14_CallbacksRunUnborrowed ==
    LastSetParent
    => \A k \in 1..Len(notes) :
          /\ notes[k].to \notin notes[k].held
          /\ last.node \notin notes[k].held

\* ------------------------------------------------------------------ C15
LastRegisterService == last.op = "register_service"

\* C15: for any node n (detached, or attached to some other parent), after
\* register_service("X", n) the node n is a child of the registry's root and
\* get_service("X") returns n.
C15_RegisteredUnderRoot ==
    (LastRegisterService /\ last.node # Root)
    => /\ contains(children[Root], last.node)
       /\ get_service(services, last.key) = last.node

\* ------------------------------------------------------------------ C16
\* C16: after register_service("X", n) with n named "X", detaching n from the
\* registry root (set_parent(n, None)) removes the "X" entry: get_service("X")
\* then returns absent.
C16_DetachDropsService ==
    (/\ LastSetParent /\ last.np = None
     /\ last.pre_parent[last.node] = Root
     /\ name[last.node] \in ServiceKeys
     /\ last.pre_services[name[last.node]] = last.node)
    => get_service(services, name[last.node]) = None

\* ------------------------------------------------------------------ C20
\* C20: register_service("X", n2) called while "X" already maps to n1 makes
\* get_service("X") return n2 and does not detach n1: n1 keeps its place under
\* the registry root and its parent back-reference.
C20_OverwriteKeepsOldAttached ==
    (/\ LastRegisterService /\ last.node # Root
     /\ last.pre_services[last.key] \notin {None, Root, last.node})
    => LET n1 == last.pre_services[last.key]
       IN  /\ get_service(services, last.key) = last.node
           /\ parent[n1] = last.pre_parent[n1]
           /\ Count(children[Root], n1) = Count(last.pre_children[Root], n1)

\* ------------------------------------------------------------------ C17
\* the ids other than g under which n is registered
OtherIds(gm, n, g) == {h \in DOMAIN gm : h # g /\ gm[h] = n}

\* what remove_instance_guid(g) must leave behind
C17_AfterRemove ==
    last.op = "remove_instance_guid"
    => LET n == last.pre_guid_map[last.key]
       IN  /\ get_instance_by_guid(guid_map, last.key) = None
           /\ (n # None /\ OtherIds(guid_map, n, last.key) = {})
                 => get_guid_for_instance(guid_map, n) = {"none"}
           /\ \A h \in Guids \ {last.key} : guid_map[h] = last.pre_guid_map[h]

\* C17: after register_instance_guid(n, g), get_instance_by_guid(g) returns n
\* and get_guid_for_instance(n) returns g; after remove_instance_guid(g),
\* get_instance_by_guid(g) returns absent and get_guid_for_instance(n) returns
\* absent unless n is registered under another id; entries under other ids
\* are unchanged.
C17_RoundTripReturnsG ==
    /\ last.op = "register_instance_guid"
       => /\ get_instance_by_guid(guid_map, last.key) = last.node
          /\ get_guid_for_instance(guid_map, last.node) = {last.key}
    /\ C17_AfterRemove

\* what the map does guarantee for the reverse lookup: it returns an id that
\* maps to n, which is g only when n is registered under no other id
C17_RoundTripReturnsSomeId ==
    /\ last.op = "register_instance_guid"
       => /\ get_instance_by_guid(guid_map, last.key) = last.node
          /\ last.key \in get_guid_for_instance(guid_map, last.node)
          /\ \A h \in get_guid_for_instance(guid_map, last.node) :
                 get_instance_by_guid(guid_map, h) = last.node
          /\ OtherIds(guid_map, last.node, last.key) = {}
                 => get_guid_for_instance(guid_map, last.node) = {last.key}
          /\ \A h \in Guids \ {last.key} : guid_map[h] = last.pre_guid_map[h]
    /\ last.op = "get_guid_for_instance"
       => IF last.result = "none"
          THEN \A h \in Guids : guid_map[h] # last.node
          ELSE get_instance_by_guid(guid_map, last.result) = last.node
    /\ C17_AfterRemove

\* ------------------------------------------------------------------ C18
\* C18: clone() of a node yields a new detached node with the same name, type
\* tag and archivable flag, zero children and zero listeners, and leaves the
\* source node (its parent, children and listeners) unchanged.
C18_CloneIsShallow ==
    [][last'.op = "clone"
       => /\ made'.name = name[last'.node]
          /\ made'.class_name = class_name[last'.node]
          /\ made'.archivable = archivable[last'.node]
          /\ made'.parent = None
          /\ made'.children = <<>>
          /\ made'.listeners = 0
          /\ UNCHANGED <<parent, children, listeners, name, class_name, archivable>>]_vars

\* the source has a parent, a listener, a name of its own and the flag off
C18_Witness ==
    /\ last.op = "clone"
    /\ parent[last.node] # None
    /\ listeners[last.node] > 0
    /\ name[last.node] # Instance_new.name
    /\ ~archivable[last.node]
    /\ made.name = name[last.node]

\* ------------------------------------------------------------------ C19
\* C19: a freshly created node is Detached: no parent, no children and no
\* listeners, name and type tag both "Instance", archivable true.
C19_FreshNodeIsDetached ==
    last.op = "new"
    => /\ made.parent = None
       /\ made.children = <<>>
       /\ made.listeners = 0
       /\ made.name = "Instance"
       /\ made.class_name = "Instance"
       /\ made.archivable = TRUE

\* a node is created after another one was cloned from an edited source
C19_Witness ==
    /\ last.op = "new"
    /\ made.name = "Instance"
    /\ \E n \in Nodes : name[n] # InitName(n)
    /\ \E n \in Nodes : listeners[n] > 0

\* ------------------------------------------------------------------ C21
\* C21: replication ids are last-writer-wins: after register_instance_guid(n1, g)
\* followed by register_instance_guid(n2, g) with n1 # n2,
\* get_instance_by_guid(g) returns n2 and the id map holds exactly one entry
\* for g (n1 is no longer found under g); the same node may be registered
\* under several ids at once.
C21_LastWriterWins ==
    (last.op = "register_instance_guid"
        /\ last.pre_guid_map[last.key] \notin {None, last.node})
    => /\ get_instance_by_guid(guid_map, last.key) = last.node
       /\ last.key \notin get_guid_for_instance(guid_map, last.pre_guid_map[last.key])
       /\ Cardinality({n \in Nodes : guid_map[last.key] = n}) = 1
       /\ \A h \in Guids \ {last.key} : guid_map[h] = last.pre_guid_map[h]

\* n2 has taken g over from n1 and is now registered under two ids
C21_Witness ==
    /\ last.op = "register_instance_guid"
    /\ last.pre_guid_map[last.key] \notin {None, last.node}
    /\ guid_map[last.key] = last.node
    /\ OtherIds(guid_map, last.node, last.key) # {}

\* ------------------------------------------------------------------ C22
\* the nodes whose parent is p
AttachedTo(p) == {c \in Nodes : parent[c] = p}

\* the lookup handed back the earliest entry of p's children that hits, a
\* node attached to p, or absent when no node attached to p hits
FirstHit(p, hits) ==
    IF AttachedTo(p) \cap hits # {}
    THEN /\ last.np \in AttachedTo(p) \cap hits
         /\ contains(children[p], last.np)
         /\ \A j \in 1..(position(children[p], last.np) - 1) : children[p][j] \notin hits
    ELSE last.np = None

C23_DropsByName ==
    last.op = "on_child_removed"
    => /\ get_service(services, name[last.node]) = None
       /\ \A k \in DOMAIN services \ {name[last.node]} : services[k] = last.pre_services[k]

\* the dropped entry mapped to another node, and an entry that maps to c under
\* another key is still there
C23_Witness ==
    /\ last.op = "on_child_removed"
    /\ name[last.node] \in DOMAIN services
    /\ last.pre_services[name[last.node]] \notin {None, last.node}
    /\ services[name[last.node]] = None
    /\ \E k \in DOMAIN services \ {name[last.node]} : services[k] = last.node

\* ------------------------------------------------------------------ C24
\* the nodes whose listeners got callback ev(arg) among the callbacks nt
Receivers(nt, ev, arg) ==
    {nt[k].to : k \in {j \in 1..Len(nt) : nt[j].ev = ev /\ nt[j].arg = arg}}

\* the last call was a feasible set_parent(c, None) on a node c that had a parent
LastFeasibleDetach ==
    /\ LastSetParent /\ last.np = None /\ last.result = "true"
    /\ last.pre_parent[last.node] # None

\* C24: the removal cascade notifies shallower than the addition cascade: for
\* the same node c and parent p in the same surrounding tree, the set of nodes
\* whose listeners receive descendant-removed(c) when c is detached from p is a
\* strict subset of the set of nodes whose listeners receive
\* descendant-added(c) when c is attached to p.
C24_RemovalShallower ==
    LastFeasibleDetach
    => LET c       == last.node
           p       == last.pre_parent[c]
           removed == Receivers(notes, "descendant_removed", c)
           added   == Receivers(set_parent(parent, children, listeners, c, p, {}).notes,
                                "descendant_added", c)
       IN  removed \subseteq added /\ removed # added

\* ------------------------------------------------------------------ C25
\* C25: when node c is detached from parent p by set_parent, each listener on
\* p receives child-removed(c) exactly once and descendant-removed(c), both
\* delivered after c has been removed from p's children, and the recursive
\* descendant-removed(c) walk then reaches the listeners of every node
\* remaining in p's subtree.
C25_DetachNotifiesSubtree ==
    LastFeasibleDetach
    => LET c == last.node
           p == last.pre_parent[c]
       IN  /\ ~contains(children[p], c)
           /\ \A i \in 1..listeners[p] :
                 /\ Delivered(p, i, "child_removed", c) = 1
                 /\ Delivered(p, i, "descendant_removed", c) >= 1
           /\ \A d \in Nodes \ {c} :
                 IsDescendant(parent, p, d)
                 => \A i \in 1..listeners[d] : Delivered(d, i, "descendant_removed", c) >= 1

\* ------------------------------------------------------------------ C26
\* C26: get_properties() builds a fresh list on every call whose base entries
\* are, in order, Name (read/write, string, getter and setter bound), Parent
\* (read-only, node-reference, getter bound and no setter) and Archivable
\* (read/write, bool, getter and setter bound); no read-only descriptor carries
\* a setter, and calling it does not change the node.
C26_BaseDescriptors ==
    [][last'.op = "get_properties"
       => /\ Len(listed') >= 3
          /\ listed'[1].name = "Name" /\ listed'[1].operation = "ReadWrite"
          /\ listed'[1].property_type = "String"
          /\ listed'[1].getter /\ listed'[1].setter
          /\ listed'[2].name = "Parent" /\ listed'[2].operation = "Read"
          /\ listed'[2].property_type = "Instance"
          /\ listed'[2].getter /\ ~listed'[2].setter
          /\ listed'[3].name = "Archivable" /\ listed'[3].operation = "ReadWrite"
          /\ listed'[3].property_type = "Bool"
          /\ listed'[3].getter /\ listed'[3].setter
          /\ \A i \in 1..Len(listed') : listed'[i].operation = "Read" => ~listed'[i].setter
          /\ UNCHANGED <<parent, children, listeners, name, class_name, archivable>>]_vars

\* the descriptors of a renamed node that has a parent, listed a second time
C26_Witness ==
    /\ last.op = "get_properties"
    /\ Len(listed) = 3
    /\ name[last.node] # InitName(last.node)
    /\ parent[last.node] # None
    /\ ~archivable[last.node]

\* ------------------------------------------------------------------ C27
\* C27: in every state reachable by any sequence of register_service and
\* set_parent calls, every node stored in the registry's service map is a
\* child of the registry's root node.
C27_ServicesAreRootChildren ==
    \A k \in DOMAIN services :
        services[k] # None => contains(children[Root], services[k])

\* ------------------------------------------------------------------ C28
\* C28: every set_parent call that passes the feasibility check delivers
\* parent-changed(new_parent) exactly once to each listener registered on the
\* moved node, including the call set_parent(c, None) on a node c that is
\* already detached; an infeasible call delivers none.
C28_ParentChangedOnce ==
    LastSetParent
    => IF last.result = "true"
       THEN \A i \in 1..listeners[last.node] :
                Delivered(last.node, i, "parent_changed", last.np) = 1
       ELSE \A k \in 1..Len(notes) : notes[k].ev # "parent_changed"

\* the part of C28 that the code keeps: calls with no new parent, and
\* infeasible calls
C28_ParentChangedOnDetach ==
    (LastSetParent /\ (last.np = None \/ last.result = "false"))
    => IF last.result = "true"
       THEN \A i \in 1..listeners[last.node] :
                Delivered(last.node, i, "parent_changed", last.np) = 1
       ELSE \A k \in 1..Len(notes) : notes[k].ev # "parent_changed"

\* ------------------------------------------------------------------ C29
\* the last call notified every listener of ls once, in registration order,
\* with callback ev, and nobody else
NotifiedInOrder(ls, ev) ==
    /\ Len(notes) = Len(ls)
    /\ \A i \in 1..Len(ls) : notes[i].to = ls[i] /\ notes[i].ev = ev

\* what authorize() and disconnect() do to the list and the flag
C29_DrainAndNotify ==
    /\ last.op = "authorize"
       => /\ peer.authorized
          /\ NotifiedInOrder(peer_pre.listeners, "on_connection_accepted")
          /\ \A k \in 1..Len(notes) : notes[k].held = {}
          /\ peer.listeners = peer_pre.listeners
    /\ last.op = "disconnect"
       => /\ NotifiedInOrder(peer_pre.listeners, "on_disconnected")
          /\ \A k \in 1..Len(notes) : notes[k].held = {}
          /\ peer.listeners = <<>>
          /\ peer.authorized = peer_pre.authorized

\* C29: authorize() sets authorized to true, drains the listener list, calls
\* on_connection_accepted once on each listener in registration order and
\* restores the list unchanged; disconnect() calls on_disconnected once on each
\* listener and leaves the list empty, so after any disconnect every later
\* authorize or disconnect notifies no listener, and disconnect leaves the
\* authorized flag unchanged.
C29_SilentAfterDisconnect ==
    /\ C29_DrainAndNotify
    /\ (last.op \in {"authorize", "disconnect"} /\ peer_hist.before) => notes = <<>>

\* the listeners that had been dropped by a disconnect before the last call
DroppedBefore ==
    IF last.op = "disconnect"
    THEN peer_hist.dropped \ {l \in 1..peer_hist.boxes : contains(peer_pre.listeners, l)}
    ELSE peer_hist.dropped

\* C29 (amended): as claimed for authorize() and disconnect(); a listener that
\* was in the list when disconnect() ran is never notified again, and a later
\* authorize or disconnect notifies exactly the listeners added since.
C29_DroppedStaySilent ==
    /\ C29_DrainAndNotify
    /\ last.op \in {"authorize", "disconnect"}
       => /\ \A k \in 1..Len(notes) : notes[k].to \notin DroppedBefore
          /\ \A l \in DroppedBefore : ~contains(peer.listeners, l)

\* a listener added after a disconnect is notified by a later call, while the
\* listener dropped by that disconnect is not
C29_Witness ==
    /\ last.op \in {"authorize", "disconnect"}
    /\ peer_hist.before
    /\ DroppedBefore # {}
    /\ notes # <<>>

\* ------------------------------------------------------------------ C30
\* C30: resume() succeeds only when the state is Paused, moving it to Running;
\* in any other state it returns a RuntimeError and leaves the state
\* unchanged; update(t) moves Paused to Running exactly when a resume time is
\* set and t is at or after it, and never changes the state of a script that
\* is not Paused; stop() and set_disabled(true) always end in Stopped with the
\* resume time cleared.
C30_ScriptStateMachine ==
    /\ last.op = "resume"
       => IF script_pre.state = "Paused"
          THEN last.result = "Ok" /\ script.state = "Running"
          ELSE last.result = "RuntimeError" /\ script.state = script_pre.state
    /\ last.op = "update"
       => IF /\ script_pre.state = "Paused"
             /\ script_pre.resume_time # None
             /\ last.np >= script_pre.resume_time
          THEN script.state = "Running"
          ELSE script.state = script_pre.state
    /\ (last.op = "stop" \/ (last.op = "set_disabled" /\ last.result = "true"))
       => script.state = "Stopped" /\ script.resume_time = None

\* a paused script whose resume time has come is moved on by update
C30_Witness ==
    /\ last.op = "update"
    /\ script_pre.state = "Paused"
    /\ script_pre.resume_time # None
    /\ last.np >= script_pre.resume_time
    /\ script.state = "Running"

\* a script waiting on a resume time is stopped by disabling it
C30_WitnessDisabled ==
    /\ last.op = "set_disabled" /\ last.result = "true"
    /\ script_pre.state = "Paused"
    /\ script_pre.resume_time # None
    /\ script.resume_time = None

====
